---- MODULE Spec2Model ----
(***************************************************************************)
(* State-machine model of the CHIP-8 / SUPER-CHIP core (src/lib.rs,        *)
(* src/cpu/mod.rs): the Cpu and Chip8Core structs, every instruction       *)
(* callback, the decoder and the frame-paced run loop.                     *)
(***************************************************************************)
EXTENDS Integers, Sequences, FiniteSets, TLC

VARIABLES
    \* Cpu (src/cpu/mod.rs:34-44)
    registers, i_register, memory, pc, stack, store_keypress,
    delay_timer, sound_timer,
    \* Chip8Core (src/lib.rs:19-28)
    frame_buffer, high_resolution, keypad_state, wave_idx,
    quirk_memory, quirk_shift,
    \* environment: the flags.rpl file and the host process
    flags_file, status,
    \* position inside Chip8Core::run and the number of completed ticks
    phase, iter, ticks,
    \* the program handed to load_game, the last step taken, the audio gate
    rom, last, audio_on

vars == <<registers, i_register, memory, pc, stack, store_keypress,
          delay_timer, sound_timer, frame_buffer, high_resolution,
          keypad_state, wave_idx, quirk_memory, quirk_shift, flags_file,
          status, phase, iter, ticks, rom, last, audio_on>>

----------------------------------------------------------------------------
(* Program constants *)

MEMORY_SIZE == 4096
INITIAL_ADDR == 512
SCREEN_WIDTH == 128
SCREEN_HEIGHT == 64
DIGIT_SIZE == 5
LARGE_DIGIT_SIZE == 10
LARGE_DIGIT_OFFSET == 128
INSTRUCTIONS_PER_FRAME == 10
KEYPAD_SIZE == 16
AUDIO_FRAME_SIZE == 1600
MAX_WAVE_IDX == 30
HEX_0 == 15
HEX_1 == 240
HEX_2 == 3840
HEX_01 == 255
HEX_12 == 4080
HEX_012 == 4095

DIGITS ==
    << 240, 144, 144, 144, 240,   32,  96,  32,  32, 112,
       240,  16, 240, 128, 240,  240,  16, 240,  16, 240,
       144, 144, 240,  16,  16,  240, 128, 240,  16, 240,
       240, 128, 240, 144, 240,  240,  16,  32,  64,  64,
       240, 144, 240, 144, 240,  240, 144, 240,  16, 240,
       240, 144, 240, 144, 144,  224, 144, 224, 144, 224,
       240, 128, 128, 128, 240,  224, 144, 144, 144, 224,
       240, 128, 240, 128, 240,  240, 128, 240, 128, 128 >>

LARGE_DIGITS ==
    <<  60, 126, 231, 195, 195, 195, 195, 231, 126,  60,
        24,  56, 104,  24,  24,  24,  24,  24,  24,  60,
        62, 127, 195,   6,  12,  24,  48,  96, 255, 255,
        60, 126, 195,   3,  14,  14,   3, 195, 126,  60,
         6,  14,  30,  54, 102, 198, 255, 255,   6,   6,
       255, 255, 192, 192, 252, 254,   3, 195, 126,  60,
        62, 124, 192, 192, 252, 254, 195, 195, 126,  60,
       255, 255,   3,   6,  12,  24,  48,  96,  96,  96,
        60, 126, 195, 195, 126, 126, 195, 195, 126,  60,
        60, 126, 195, 195, 127,  63,   3,   3,  62, 124 >>

----------------------------------------------------------------------------
(* Machine arithmetic *)

Min(a, b) == IF a < b THEN a ELSE b

\* 2^n
RECURSIVE Pow2(_)
Pow2(n) == IF n = 0 THEN 1 ELSE 2 * Pow2(n - 1)

\* bitwise operators on naturals
RECURSIVE BitAnd(_, _)
BitAnd(a, b) ==
    IF a = 0 \/ b = 0 THEN 0
    ELSE (a % 2) * (b % 2) + 2 * BitAnd(a \div 2, b \div 2)

RECURSIVE BitOr(_, _)
BitOr(a, b) ==
    IF a = 0 THEN b ELSE IF b = 0 THEN a
    ELSE (IF a % 2 = 1 \/ b % 2 = 1 THEN 1 ELSE 0) + 2 * BitOr(a \div 2, b \div 2)

RECURSIVE BitXor(_, _)
BitXor(a, b) ==
    IF a = 0 THEN b ELSE IF b = 0 THEN a
    ELSE ((a + b) % 2) + 2 * BitXor(a \div 2, b \div 2)

\* u16::trailing_zeros of a non-zero mask
RECURSIVE trailing_zeros(_)
trailing_zeros(mask) == IF mask % 2 = 1 THEN 0 ELSE 1 + trailing_zeros(mask \div 2)

\* u8::wrapping_add / overflowing_add / overflowing_sub
wrapping_add(a, b) == (a + b) % 256
\* mutant of overflowing_add: the overflow is never reported
overflowing_add_silent(a, b) == <<(a + b) % 256, FALSE>>
overflowing_add(a, b) == <<(a + b) % 256, a + b > 255>>
\* mutant of overflowing_sub: equal operands report an overflow too
overflowing_sub_on_equal(a, b) == <<(a - b + 256) % 256, a <= b>>
overflowing_sub(a, b) == <<(a - b + 256) % 256, a < b>>
\* mutant of saturating_sub: the subtraction wraps around below 0
wrapping_sub(a, b) == (a - b) % 256
saturating_sub(a, b) == IF a < b THEN 0 ELSE a - b
bool_as_u8(b) == IF b THEN 1 ELSE 0

----------------------------------------------------------------------------
(* Instruction table and decoder (src/cpu/mod.rs) *)

NoArgs == [k \in {} |-> 0]

\* Instruction::arg_masks of the instruction called name (create_instructions)
arg_masks(name) ==
    CASE name \in {"NOP", "CLS", "RET", "SCR", "SCL", "EXIT", "LORES", "HIRES"} ->
            NoArgs
      [] name = "SCD" -> [N |-> HEX_0]
      [] name \in {"JMP", "CALL", "MOVI", "JMPR"} -> [N |-> HEX_012]
      [] name \in {"SKPEQ", "SKPNE", "MOV", "ADD", "RAND"} ->
            [X |-> HEX_2, N |-> HEX_01]
      [] name \in {"SKPEQR", "MOVR", "OR", "AND", "XOR", "ADDR", "SUBR", "SHR",
                   "RSUBR", "SHL", "SKPNER"} ->
            [X |-> HEX_2, Y |-> HEX_1]
      [] name = "DRAW" -> [X |-> HEX_2, Y |-> HEX_1, N |-> HEX_0]
      [] name \in {"SKPK", "SKPNK", "KEY", "TIMR", "DELR", "DIGIT", "LDIGIT",
                   "SNDR", "ADDI", "BCD", "SAVE", "LOAD", "SAVEF", "LOADF"} ->
            [X |-> HEX_2]

\* Instruction::arg
arg(instruction, mask) == BitAnd(instruction, mask) \div Pow2(trailing_zeros(mask))

\* Instruction::args
args(name, instruction) ==
    LET masks == arg_masks(name)
    IN  [k \in DOMAIN masks |-> arg(instruction, masks[k])]

\* Cpu::decode_instruction: the name of the instruction a raw word decodes to
decode_instruction(instruction) ==
    LET top  == BitAnd(instruction, \hF000)
        low8 == BitAnd(instruction, \h00FF)
        low4 == BitAnd(instruction, \h000F)
    IN  CASE top = 0 ->
               (CASE low8 \in \hC0..\hCF -> "SCD"
                  [] low8 = \hE0 -> "CLS"
                  [] low8 = \hEE -> "RET"
                  [] low8 = \hFB -> "SCR"
                  [] low8 = \hFC -> "SCL"
                  [] low8 = \hFD -> "EXIT"
                  [] low8 = \hFE -> "LORES"
                  [] low8 = \hFF -> "HIRES"
                  [] OTHER -> "NOP")
          [] top = \h1000 -> "JMP"
          [] top = \h2000 -> "CALL"
          [] top = \h3000 -> "SKPEQ"
          [] top = \h4000 -> "SKPNE"
          [] top = \h5000 -> "SKPEQR"
          [] top = \h6000 -> "MOV"
          [] top = \h7000 -> "ADD"
          [] top = \h8000 ->
               (CASE low4 = 0 -> "MOVR"
                  [] low4 = 1 -> "OR"
                  [] low4 = 2 -> "AND"
                  [] low4 = 3 -> "XOR"
                  [] low4 = 4 -> "ADDR"
                  [] low4 = 5 -> "SUBR"
                  [] low4 = 6 -> "SHR"
                  [] low4 = 7 -> "RSUBR"
                  [] low4 = \hE -> "SHL"
                  [] OTHER -> "NOP")
          [] top = \h9000 -> "SKPNER"
          [] top = \hA000 -> "MOVI"
          [] top = \hB000 -> "JMPR"
          [] top = \hC000 -> "RAND"
          [] top = \hD000 -> "DRAW"
          [] top = \hE000 ->
               (CASE low8 = \h9E -> "SKPK"
                  [] low8 = \hA1 -> "SKPNK"
                  [] OTHER -> "NOP")
          [] top = \hF000 ->
               (CASE low8 = \h0A -> "KEY"
                  [] low8 = \h07 -> "TIMR"
                  [] low8 = \h15 -> "DELR"
                  [] low8 = \h18 -> "SNDR"
                  [] low8 = \h1E -> "ADDI"
                  [] low8 = \h29 -> "DIGIT"
                  [] low8 = \h30 -> "LDIGIT"
                  [] low8 = \h33 -> "BCD"
                  [] low8 = \h55 -> "SAVE"
                  [] low8 = \h65 -> "LOAD"
                  [] low8 = \h75 -> "SAVEF"
                  [] low8 = \h85 -> "LOADF"
                  [] OTHER -> "NOP")
          [] OTHER -> "NOP"

\* The 4096-byte memory array is kept as the function from the addresses that
\* hold a non-zero byte to that byte: every address outside its domain holds 0.
\* peek reads memory[a], poke makes the stores w (a function address -> byte).
peek(mem, a) == IF a \in DOMAIN mem THEN mem[a] ELSE 0

poke(mem, w) ==
    [a \in (DOMAIN mem \ DOMAIN w) \cup {x \in DOMAIN w : w[x] # 0} |->
        IF a \in DOMAIN w THEN w[a] ELSE mem[a]]

\* Cpu::new: memory holds the two font tables and is zero elsewhere
NewMemory ==
    poke([a \in {} |-> 0],
         [a \in (0..(Len(DIGITS) - 1)) \cup
                (LARGE_DIGIT_OFFSET..(LARGE_DIGIT_OFFSET + Len(LARGE_DIGITS) - 1)) |->
             IF a < Len(DIGITS) THEN DIGITS[a + 1]
             ELSE LARGE_DIGITS[a - LARGE_DIGIT_OFFSET + 1]])

\* mutant of load_program: of a program that does not fit, the part that fits
\* is copied
load_program_truncates(mem, data) ==
    LET size == Min(Len(data), MEMORY_SIZE - INITIAL_ADDR)
    IN  poke(mem, [a \in INITIAL_ADDR..(INITIAL_ADDR + size - 1) |->
                     data[a - INITIAL_ADDR + 1]])

\* Cpu::load_program: data copied to INITIAL_ADDR, or nothing when it does not fit
load_program(mem, data) ==
    IF Len(data) <= MEMORY_SIZE - INITIAL_ADDR
    THEN poke(mem, [a \in INITIAL_ADDR..(INITIAL_ADDR + Len(data) - 1) |->
                      data[a - INITIAL_ADDR + 1]])
    ELSE mem

----------------------------------------------------------------------------
(* Instruction callbacks (src/lib.rs).  Each takes the core s (a record of   *)
(* the state variables) and the extracted arguments a, and yields the core  *)
(* after the callback.  A Rust panic (index out of range) leaves            *)
(* status = "panicked"; process::exit leaves status = "exited".             *)

EmptyBuffer == [r \in 0..(SCREEN_HEIGHT - 1) |-> {}]

panic(s) == [s EXCEPT !.status = "panicked"]

nop(s, a) == s

cls(s, a) == [s EXCEPT !.frame_buffer = EmptyBuffer]

jmp(s, a) == [s EXCEPT !.pc = a.N]

\* mutant of call: a stack of 16 slots that drops the push when it is full
call_capped(s, a) ==
    IF Len(s.stack) < 16
    THEN [s EXCEPT !.stack = Append(s.stack, s.pc), !.pc = a.N]
    ELSE [s EXCEPT !.pc = a.N]

call(s, a) == [s EXCEPT !.stack = Append(s.stack, s.pc), !.pc = a.N]

\* mutant of ret: on an empty stack the program counter goes back to the start
ret_underflow_restarts(s, a) ==
    IF s.stack # <<>>
    THEN [s EXCEPT !.pc = s.stack[Len(s.stack)],
                   !.stack = SubSeq(s.stack, 1, Len(s.stack) - 1)]
    ELSE [s EXCEPT !.pc = INITIAL_ADDR]

\* stack.pop() is None on an empty stack and nothing is assigned
ret(s, a) ==
    IF s.stack # <<>>
    THEN [s EXCEPT !.pc = s.stack[Len(s.stack)],
                   !.stack = SubSeq(s.stack, 1, Len(s.stack) - 1)]
    ELSE s

scd(s, a) ==
    LET n == a.N % SCREEN_HEIGHT
    IN  [s EXCEPT !.frame_buffer =
            [r \in 0..(SCREEN_HEIGHT - 1) |->
                IF r >= n THEN s.frame_buffer[r - n] ELSE {}]]

scr(s, a) ==
    LET pixels == 4
    IN  [s EXCEPT !.frame_buffer =
            [r \in 0..(SCREEN_HEIGHT - 1) |->
                {c + pixels : c \in {d \in s.frame_buffer[r] : d < SCREEN_WIDTH - pixels}}]]

scl(s, a) ==
    LET pixels == 4
    IN  [s EXCEPT !.frame_buffer =
            [r \in 0..(SCREEN_HEIGHT - 1) |->
                {c - pixels : c \in {d \in s.frame_buffer[r] : d >= pixels}}]]

exit(s, a) == [s EXCEPT !.status = "exited"]

\* mutant of lores: leaving high resolution clears the screen as well
lores_clears(s, a) ==
    [s EXCEPT !.high_resolution = FALSE, !.frame_buffer = EmptyBuffer]

lores(s, a) == [s EXCEPT !.high_resolution = FALSE]

hires(s, a) == [s EXCEPT !.high_resolution = TRUE]

\* mutant of skpeq: the skip adds 4 to the program counter
skpeq_skips_two(s, a) ==
    IF s.registers[a.X] = a.N % 256 THEN [s EXCEPT !.pc = s.pc + 4] ELSE s

skpeq(s, a) ==
    IF s.registers[a.X] = a.N % 256 THEN [s EXCEPT !.pc = s.pc + 2] ELSE s

skpne(s, a) ==
    IF s.registers[a.X] # a.N % 256 THEN [s EXCEPT !.pc = s.pc + 2] ELSE s

skpeqr(s, a) ==
    IF s.registers[a.X] = s.registers[a.Y] THEN [s EXCEPT !.pc = s.pc + 2] ELSE s

skpner(s, a) ==
    IF s.registers[a.X] # s.registers[a.Y] THEN [s EXCEPT !.pc = s.pc + 2] ELSE s

\* mutant of jmpr: the register named by the second nibble is added
jmpr_vx(s, a) == [s EXCEPT !.pc = (a.N + s.registers[a.N \div 256]) % MEMORY_SIZE]

jmpr(s, a) == [s EXCEPT !.pc = (a.N + s.registers[0]) % MEMORY_SIZE]

\* mutant of addr: the flag is written before the result
addr_flag_first(s, a) ==
    LET r == overflowing_add(s.registers[a.X], s.registers[a.Y])
        flag_written == [s.registers EXCEPT ![15] = bool_as_u8(r[2])]
    IN  [s EXCEPT !.registers = [flag_written EXCEPT ![a.X] = r[1]]]

\* registers[x] = result; registers[0xF] = flag, in this order
addr(s, a) ==
    LET r == overflowing_add(s.registers[a.X], s.registers[a.Y])
        result_written == [s.registers EXCEPT ![a.X] = r[1]]
    IN  [s EXCEPT !.registers = [result_written EXCEPT ![15] = bool_as_u8(r[2])]]

subr(s, a) ==
    LET r == overflowing_sub(s.registers[a.X], s.registers[a.Y])
        result_written == [s.registers EXCEPT ![a.X] = r[1]]
    IN  [s EXCEPT !.registers = [result_written EXCEPT ![15] = bool_as_u8(~r[2])]]

rsubr(s, a) ==
    LET r == overflowing_sub(s.registers[a.Y], s.registers[a.X])
        result_written == [s.registers EXCEPT ![a.X] = r[1]]
    IN  [s EXCEPT !.registers = [result_written EXCEPT ![15] = bool_as_u8(~r[2])]]

mov(s, a) == [s EXCEPT !.registers[a.X] = a.N % 256]

\* mutant of add: the carry of the sum is written to VF, as ADDR does
add_with_carry(s, a) ==
    LET r == overflowing_add(s.registers[a.X], a.N % 256)
        result_written == [s.registers EXCEPT ![a.X] = r[1]]
    IN  [s EXCEPT !.registers = [result_written EXCEPT ![15] = bool_as_u8(r[2])]]

add(s, a) == [s EXCEPT !.registers[a.X] = wrapping_add(s.registers[a.X], a.N % 256)]

movr(s, a) == [s EXCEPT !.registers[a.X] = s.registers[a.Y]]

movi(s, a) == [s EXCEPT !.i_register = a.N]

sndr(s, a) == [s EXCEPT !.sound_timer = s.registers[a.X]]

\* mutant of timr: the timer is read as it will be after its next decrement
timr_decremented(s, a) ==
    [s EXCEPT !.registers[a.X] = IF s.delay_timer > 0 THEN s.delay_timer - 1 ELSE 0]

timr(s, a) == [s EXCEPT !.registers[a.X] = s.delay_timer]

delr(s, a) == [s EXCEPT !.delay_timer = s.registers[a.X]]

digit(s, a) ==
    [s EXCEPT !.i_register = (s.registers[a.X] % KEYPAD_SIZE) * DIGIT_SIZE]

ldigit(s, a) ==
    [s EXCEPT !.i_register =
        LARGE_DIGIT_OFFSET + (s.registers[a.X] % KEYPAD_SIZE) * LARGE_DIGIT_SIZE]

\* u16::wrapping_add
addi(s, a) == [s EXCEPT !.i_register = (s.i_register + s.registers[a.X]) % 65536]

\* Option<usize> as a sequence: <<>> is None, <<x>> is Some(x)
key(s, a) == [s EXCEPT !.store_keypress = <<a.X>>]

\* mutant of skpk: the register value indexes the keypad without the % 16
skpk_unmasked(s, a) ==
    IF s.registers[a.X] >= KEYPAD_SIZE THEN panic(s)
    ELSE IF s.keypad_state[s.registers[a.X]]
    THEN [s EXCEPT !.pc = s.pc + 2] ELSE s

skpk(s, a) ==
    IF s.keypad_state[s.registers[a.X] % KEYPAD_SIZE]
    THEN [s EXCEPT !.pc = s.pc + 2] ELSE s

skpnk(s, a) ==
    IF ~s.keypad_state[s.registers[a.X] % KEYPAD_SIZE]
    THEN [s EXCEPT !.pc = s.pc + 2] ELSE s

\* mutant of shr: VX is shifted whatever the shift quirk says
shr_shifts_vx(s, a) ==
    LET y_val == s.registers[a.X]
        flag_written == [s.registers EXCEPT ![15] = BitAnd(y_val, 1)]
    IN  [s EXCEPT !.registers = [flag_written EXCEPT ![a.X] = y_val \div 2]]

\* registers[0xF] = shifted-out bit; registers[x] = shifted value, in this order
shr(s, a) ==
    LET y_val == IF s.quirk_shift THEN s.registers[a.X] ELSE s.registers[a.Y]
        flag_written == [s.registers EXCEPT ![15] = BitAnd(y_val, 1)]
    IN  [s EXCEPT !.registers = [flag_written EXCEPT ![a.X] = y_val \div 2]]

shl(s, a) ==
    LET y_val == IF s.quirk_shift THEN s.registers[a.X] ELSE s.registers[a.Y]
        flag_written == [s.registers EXCEPT ![15] = BitAnd(y_val, 128) \div 128]
    IN  [s EXCEPT !.registers = [flag_written EXCEPT ![a.X] = (y_val * 2) % 256]]

or(s, a) ==
    [s EXCEPT !.registers[a.X] = BitOr(s.registers[a.X], s.registers[a.Y])]

and(s, a) ==
    [s EXCEPT !.registers[a.X] = BitAnd(s.registers[a.X], s.registers[a.Y])]

xor(s, a) ==
    [s EXCEPT !.registers[a.X] = BitXor(s.registers[a.X], s.registers[a.Y])]

\* rnd is the byte drawn from rand::thread_rng()
rand(s, a, rnd) == [s EXCEPT !.registers[a.X] = BitAnd(rnd, a.N % 256)]

\* mutant of clipped_rows: rows cut by the bottom edge are not counted
clipped_rows_ignored(n, height) == 0

\* draw, line 514: the sprite rows that were not drawn, added to the flag
clipped_rows(n, height) == n - height

\* mutant of draw: columns past the right edge come back in at the left
draw_wraps(s, a) ==
    LET draw_large_sprite == s.high_resolution /\ a.N = 0
        addr_scaling_factor == bool_as_u8(draw_large_sprite) + 1
        n == IF draw_large_sprite THEN 16 ELSE a.N
        columns == IF draw_large_sprite THEN 16 ELSE 8
        x_val == (IF s.high_resolution THEN s.registers[a.X]
                  ELSE s.registers[a.X] * 2) % SCREEN_WIDTH
        y_val == (IF s.high_resolution THEN s.registers[a.Y]
                  ELSE s.registers[a.Y] * 2) % SCREEN_HEIGHT
        scaling_factor == bool_as_u8(~s.high_resolution) + 1
        height == Min(n, (SCREEN_HEIGHT - y_val) \div scaling_factor)
        width == columns
        addr_of(i) == s.i_register + i * addr_scaling_factor
        last_addr(i) == IF draw_large_sprite THEN addr_of(i) + 1 ELSE addr_of(i)
        sprite_data(i) ==
            IF draw_large_sprite
            THEN peek(s.memory, addr_of(i)) * 256 + peek(s.memory, addr_of(i) + 1)
            ELSE peek(s.memory, addr_of(i)) * 256
        sprite_bit(i, j) == (sprite_data(i) \div Pow2(15 - j)) % 2 = 1
        \* the columns sprite row i toggles, and the screen rows it covers
        cols(i) == UNION {{(x_val + j * scaling_factor + offset_j) % SCREEN_WIDTH :
                              offset_j \in 0..(scaling_factor - 1)} :
                          j \in {k \in 0..(width - 1) : sprite_bit(i, k)}}
        rows(i) == {y_val + i * scaling_factor + offset_i :
                       offset_i \in 0..(scaling_factor - 1)}
        row_black(i) == \E r \in rows(i) : cols(i) \cap s.frame_buffer[r] # {}
        \* the sprite rows drawn: all of them, or those before the first one
        \* whose bytes lie outside memory (the index panics there)
        drawn == {i \in 0..(height - 1) :
                     \A k \in 0..i : last_addr(k) < MEMORY_SIZE}
        toggled(r) == UNION {cols(i) : i \in {k \in drawn : r \in rows(k)}}
        collisions == {i \in 0..(height - 1) : row_black(i)}
        black == (IF s.high_resolution THEN Cardinality(collisions)
                  ELSE bool_as_u8(collisions # {})) + clipped_rows(n, height)
        buffer == [r \in 0..(SCREEN_HEIGHT - 1) |->
                     (s.frame_buffer[r] \ toggled(r)) \cup
                     (toggled(r) \ s.frame_buffer[r])]
    IN  IF \E i \in 0..(height - 1) : last_addr(i) >= MEMORY_SIZE
        THEN panic([s EXCEPT !.frame_buffer = buffer])
        ELSE [s EXCEPT !.frame_buffer = buffer,
                       !.registers[15] = black % 256]

\* DRAW: frame_buffer[r] is the set of columns of row r that are on
draw(s, a) ==
    LET draw_large_sprite == s.high_resolution /\ a.N = 0
        addr_scaling_factor == bool_as_u8(draw_large_sprite) + 1
        n == IF draw_large_sprite THEN 16 ELSE a.N
        columns == IF draw_large_sprite THEN 16 ELSE 8
        x_val == (IF s.high_resolution THEN s.registers[a.X]
                  ELSE s.registers[a.X] * 2) % SCREEN_WIDTH
        y_val == (IF s.high_resolution THEN s.registers[a.Y]
                  ELSE s.registers[a.Y] * 2) % SCREEN_HEIGHT
        scaling_factor == bool_as_u8(~s.high_resolution) + 1
        height == Min(n, (SCREEN_HEIGHT - y_val) \div scaling_factor)
        width == Min(columns, (SCREEN_WIDTH - x_val) \div scaling_factor)
        addr_of(i) == s.i_register + i * addr_scaling_factor
        last_addr(i) == IF draw_large_sprite THEN addr_of(i) + 1 ELSE addr_of(i)
        sprite_data(i) ==
            IF draw_large_sprite
            THEN peek(s.memory, addr_of(i)) * 256 + peek(s.memory, addr_of(i) + 1)
            ELSE peek(s.memory, addr_of(i)) * 256
        sprite_bit(i, j) == (sprite_data(i) \div Pow2(15 - j)) % 2 = 1
        \* the columns sprite row i toggles, and the screen rows it covers
        cols(i) == UNION {{x_val + j * scaling_factor + offset_j :
                              offset_j \in 0..(scaling_factor - 1)} :
                          j \in {k \in 0..(width - 1) : sprite_bit(i, k)}}
        rows(i) == {y_val + i * scaling_factor + offset_i :
                       offset_i \in 0..(scaling_factor - 1)}
        row_black(i) == \E r \in rows(i) : cols(i) \cap s.frame_buffer[r] # {}
        \* the sprite rows drawn: all of them, or those before the first one
        \* whose bytes lie outside memory (the index panics there)
        drawn == {i \in 0..(height - 1) :
                     \A k \in 0..i : last_addr(k) < MEMORY_SIZE}
        toggled(r) == UNION {cols(i) : i \in {k \in drawn : r \in rows(k)}}
        collisions == {i \in 0..(height - 1) : row_black(i)}
        black == (IF s.high_resolution THEN Cardinality(collisions)
                  ELSE bool_as_u8(collisions # {})) + clipped_rows(n, height)
        buffer == [r \in 0..(SCREEN_HEIGHT - 1) |->
                     (s.frame_buffer[r] \ toggled(r)) \cup
                     (toggled(r) \ s.frame_buffer[r])]
    IN  IF \E i \in 0..(height - 1) : last_addr(i) >= MEMORY_SIZE
        THEN panic([s EXCEPT !.frame_buffer = buffer])
        ELSE [s EXCEPT !.frame_buffer = buffer,
                       !.registers[15] = black % 256]

\* mutant of bcd: the ones digit is written first and the hundreds last
bcd_low_first(s, a) ==
    LET x_val == s.registers[a.X]
        digit_of(i) == (x_val \div (IF i = 0 THEN 1 ELSE IF i = 1 THEN 10 ELSE 100)) % 10
        written ==
            poke(s.memory,
                 [address \in {m \in s.i_register..(s.i_register + 2) : m < MEMORY_SIZE} |->
                     digit_of(address - s.i_register)])
    IN  IF s.i_register + 2 >= MEMORY_SIZE
        THEN panic([s EXCEPT !.memory = written])
        ELSE [s EXCEPT !.memory = written]

\* the loop of bcd / save / load stops with a panic at the first address that
\* is out of range; the stores made before it stay
bcd(s, a) ==
    LET x_val == s.registers[a.X]
        digit_of(i) == (x_val \div (IF i = 0 THEN 100 ELSE IF i = 1 THEN 10 ELSE 1)) % 10
        written ==
            poke(s.memory,
                 [address \in {m \in s.i_register..(s.i_register + 2) : m < MEMORY_SIZE} |->
                     digit_of(address - s.i_register)])
    IN  IF s.i_register + 2 >= MEMORY_SIZE
        THEN panic([s EXCEPT !.memory = written])
        ELSE [s EXCEPT !.memory = written]

\* mutant of save: I moves on by X instead of X + 1
save_advances_x(s, a) ==
    LET x == a.X
        written ==
            poke(s.memory,
                 [address \in {m \in s.i_register..(s.i_register + x) : m < MEMORY_SIZE} |->
                     s.registers[address - s.i_register]])
    IN  IF s.i_register + x >= MEMORY_SIZE
        THEN panic([s EXCEPT !.memory = written])
        ELSE [s EXCEPT !.memory = written,
                       !.i_register = IF s.quirk_memory THEN s.i_register
                                      ELSE s.i_register + x]

save(s, a) ==
    LET x == a.X
        written ==
            poke(s.memory,
                 [address \in {m \in s.i_register..(s.i_register + x) : m < MEMORY_SIZE} |->
                     s.registers[address - s.i_register]])
    IN  IF s.i_register + x >= MEMORY_SIZE
        THEN panic([s EXCEPT !.memory = written])
        ELSE [s EXCEPT !.memory = written,
                       !.i_register = IF s.quirk_memory THEN s.i_register
                                      ELSE s.i_register + x + 1]

\* mutant of load: the registers below VX are filled, VX is not
load_exclusive(s, a) ==
    LET x == a.X
        filled == [reg \in 0..15 |->
                      IF reg < x /\ s.i_register + reg < MEMORY_SIZE
                      THEN peek(s.memory, s.i_register + reg) ELSE s.registers[reg]]
    IN  IF s.i_register + x >= MEMORY_SIZE
        THEN panic([s EXCEPT !.registers = filled])
        ELSE [s EXCEPT !.registers = filled,
                       !.i_register = IF s.quirk_memory THEN s.i_register
                                      ELSE s.i_register + x + 1]

load(s, a) ==
    LET x == a.X
        filled == [reg \in 0..15 |->
                      IF reg <= x /\ s.i_register + reg < MEMORY_SIZE
                      THEN peek(s.memory, s.i_register + reg) ELSE s.registers[reg]]
    IN  IF s.i_register + x >= MEMORY_SIZE
        THEN panic([s EXCEPT !.registers = filled])
        ELSE [s EXCEPT !.registers = filled,
                       !.i_register = IF s.quirk_memory THEN s.i_register
                                      ELSE s.i_register + x + 1]

\* mutant of savef: the test of X against 7 is missing
savef_unchecked(s, a, io) ==
    LET x == a.X
    IN  IF io = "open_err" THEN s
        ELSE IF io = "rw_err" THEN [s EXCEPT !.flags_file = << <<>> >>]
        ELSE [s EXCEPT !.flags_file = << [k \in 1..(x + 1) |-> s.registers[k - 1]] >>]

\* flags_file is <<>> while flags.rpl does not exist and <<bytes>> once it does.
\* io is the outcome of the file system: "ok", "open_err" (File::create or
\* File::open fails) or "rw_err" (write_all / read_exact fails after the open)
savef(s, a, io) ==
    LET x == a.X
    IN  IF x > 7 THEN s
        ELSE IF io = "open_err" THEN s
        ELSE IF io = "rw_err" THEN [s EXCEPT !.flags_file = << <<>> >>]
        ELSE [s EXCEPT !.flags_file = << [k \in 1..(x + 1) |-> s.registers[k - 1]] >>]

\* read_exact copies what the file holds into registers[0..=x] and fails, with
\* the bytes read so far kept, when the file is shorter than x + 1
loadf(s, a, io) ==
    LET x == a.X
    IN  IF x > 7 THEN s
        ELSE IF io = "open_err" \/ s.flags_file = <<>> THEN s
        ELSE IF io = "rw_err" THEN s
        ELSE LET data == s.flags_file[1]
             IN  [s EXCEPT !.registers =
                    [reg \in 0..15 |->
                        IF reg <= x /\ reg < Len(data) THEN data[reg + 1]
                        ELSE s.registers[reg]]]

\* Cpu::fetch_byte: <<core after the fetch, byte>>
fetch_byte(s) ==
    IF s.pc >= MEMORY_SIZE THEN <<panic(s), 0>>
    ELSE <<[s EXCEPT !.pc = s.pc + 1], peek(s.memory, s.pc)>>

\* Cpu::fetch_instruction: <<core after the fetch, raw instruction>>
fetch_instruction(s) ==
    LET msb == fetch_byte(s)
        lsb == fetch_byte(msb[1])
    IN  IF msb[1].status = "panicked" THEN msb
        ELSE IF lsb[1].status = "panicked" THEN lsb
        ELSE <<lsb[1], msb[2] * 256 + lsb[2]>>

\* (instruction.callback)(self, args)
callback(name, s, a, rnd, io) ==
    CASE name = "NOP" -> nop(s, a)       [] name = "SCD" -> scd(s, a)
      [] name = "CLS" -> cls(s, a)       [] name = "RET" -> ret(s, a)
      [] name = "SCR" -> scr(s, a)       [] name = "SCL" -> scl(s, a)
      [] name = "EXIT" -> exit(s, a)     [] name = "LORES" -> lores(s, a)
      [] name = "HIRES" -> hires(s, a)   [] name = "JMP" -> jmp(s, a)
      [] name = "CALL" -> call(s, a)     [] name = "SKPEQ" -> skpeq(s, a)
      [] name = "SKPNE" -> skpne(s, a)   [] name = "SKPEQR" -> skpeqr(s, a)
      [] name = "MOV" -> mov(s, a)       [] name = "ADD" -> add(s, a)
      [] name = "MOVR" -> movr(s, a)     [] name = "OR" -> or(s, a)
      [] name = "AND" -> and(s, a)       [] name = "XOR" -> xor(s, a)
      [] name = "ADDR" -> addr(s, a)     [] name = "SUBR" -> subr(s, a)
      [] name = "SHR" -> shr(s, a)       [] name = "RSUBR" -> rsubr(s, a)
      [] name = "SHL" -> shl(s, a)       [] name = "SKPNER" -> skpner(s, a)
      [] name = "MOVI" -> movi(s, a)     [] name = "JMPR" -> jmpr(s, a)
      [] name = "RAND" -> rand(s, a, rnd)
      [] name = "DRAW" -> draw(s, a)     [] name = "SKPK" -> skpk(s, a)
      [] name = "SKPNK" -> skpnk(s, a)   [] name = "KEY" -> key(s, a)
      [] name = "TIMR" -> timr(s, a)     [] name = "DELR" -> delr(s, a)
      [] name = "DIGIT" -> digit(s, a)   [] name = "LDIGIT" -> ldigit(s, a)
      [] name = "SNDR" -> sndr(s, a)     [] name = "ADDI" -> addi(s, a)
      [] name = "BCD" -> bcd(s, a)       [] name = "SAVE" -> save(s, a)
      [] name = "LOAD" -> load(s, a)     [] name = "SAVEF" -> savef(s, a, io)
      [] name = "LOADF" -> loadf(s, a, io)

\* Chip8Core::execute_instruction
execute_instruction(s, rnd, io) ==
    LET fetched == fetch_instruction(s)
        raw_instruction == fetched[2]
        instruction == decode_instruction(raw_instruction)
    IN  IF fetched[1].status = "panicked" THEN fetched[1]
        ELSE callback(instruction, fetched[1], args(instruction, raw_instruction), rnd, io)

----------------------------------------------------------------------------
(* Bounds and inputs *)

\* ticks (calls of run) a behaviour makes
MaxTicks == 4
\* the random bytes RAND can draw are k * 127 mod 256 for k in 0..MaxRand
MaxRand == 2
\* nesting depth of the subroutines of NestRom
NestDepth == 17

RandomBytes == {(k * 127) % 256 : k \in 0..MaxRand}
IoOutcomes == {"ok", "open_err", "rw_err"}

\* sets of keys the host reports as pressed in one sample
Keypads == {{}, {11}, {3, 11}}

\* a program given as 16-bit words, as the bytes of its big-endian encoding
Bytes(words) ==
    [k \in 1..(2 * Len(words)) |->
        IF k % 2 = 1 THEN words[(k + 1) \div 2] \div 256 ELSE words[k \div 2] % 256]

\* KEY V3; MOV V4, 1; JMP 0x200
KeyRom == Bytes(<<\hF30A, \h6401, \h1200>>)
\* JMP 0x200
JmpSelfRom == Bytes(<<\h1200>>)
\* JMP 0xFFF and JMP 0xFFE: the fetch reaches the end of memory
JmpLastByteRom == Bytes(<<\h1FFF>>)
JmpLastWordRom == Bytes(<<\h1FFE>>)
\* a program that fills memory: JMP 0xFFE ... SKPEQ V0, 0 in the last word
SkipAtEndRom ==
    Bytes([k \in 1..((MEMORY_SIZE - INITIAL_ADDR) \div 2) |->
             IF k = 1 THEN \h1FFE
             ELSE IF k = (MEMORY_SIZE - INITIAL_ADDR) \div 2 THEN \h3000 ELSE 0])
\* MOVI 0x400; RAND V0; RAND V1; BCD V0; SAVE V1; MOVI 0x400; RAND V0; LOAD V1;
\* DRAW V0 V1 2; EXIT
MemRom ==
    Bytes(<<\hA400, \hC0FF, \hC1FF, \hF033, \hF155, \hA400, \hC0FF, \hF165, \hD012,
            \h00FD>>)
\* MOVI 0xFFE; MOV V0, 159; BCD V0
BcdEndRom == Bytes(<<\hAFFE, \h609F, \hF033>>)
\* MOVI 0xFFF; MOV V0, 7; MOV V1, 9; SAVE V1
SaveEndRom == Bytes(<<\hAFFF, \h6007, \h6109, \hF155>>)
\* MOVI 0xFFF; LOAD V1
LoadEndRom == Bytes(<<\hAFFF, \hF165>>)
\* MOVI 0xFFF; DRAW V0 V0 2
DrawEndRom == Bytes(<<\hAFFF, \hD002>>)
\* RAND VF; RAND V1; ADDR VF V1; RAND VF; SUBR VF V1; RAND VF; RSUBR VF V1;
\* RAND V2; ADDR V2 V1; RAND V2; SUBR V2 V1; RAND V2; RSUBR V2 V1;
\* ADD V2, 100; OR V2 V1; AND V2 V1; XOR V2 V1; EXIT
ArithRom ==
    Bytes(<<\hCFFF, \hC1FF, \h8F14, \hCFFF, \h8F15, \hCFFF, \h8F17,
            \hC2FF, \h8214, \hC2FF, \h8215, \hC2FF, \h8217,
            \h7264, \h8211, \h8212, \h8213, \h00FD>>)
\* RAND VF; RAND V1; SHR VF V1; RAND VF; SHL VF V1;
\* RAND V2; SHR V2 V1; RAND V2; SHL V2 V1; EXIT
ShiftRom ==
    Bytes(<<\hCFFF, \hC1FF, \h8F16, \hCFFF, \h8F1E,
            \hC2FF, \h8216, \hC2FF, \h821E, \h00FD>>)
\* RAND V0 & 1; RAND V1 & 1; RAND V2 & 0x0B; then each skip followed by CLS;
\* EXIT
SkipRom ==
    Bytes(<<\hC001, \hC101, \hC20B, \h3000, \h00E0, \h4000, \h00E0, \h5010, \h00E0,
            \h9010, \h00E0, \hE29E, \h00E0, \hE2A1, \h00E0, \h00FD>>)
\* subroutine k at 0x200 + 4k is CALL sub(k+1); RET, the innermost is RET
NestRom ==
    Bytes([k \in 1..(2 * NestDepth + 1) |->
             IF k % 2 = 1 /\ k < 2 * NestDepth + 1
             THEN \h2000 + INITIAL_ADDR + 4 * ((k + 1) \div 2) ELSE \h00EE])
\* one of each remaining instruction:
\*   0x200 HIRES; MOV V0, 3; MOV V1, 0x82; MOVR V2 V1; DIGIT V0; DRAW V0 V0 5;
\*   0x20C SCD 2; SCR; SCL; LDIGIT V0; DRAW V0 V0 0; LORES; DELR V1; SNDR V0;
\*   0x21C TIMR V5; ADDI V1; SAVEF V2; LOADF V1; SAVEF V8; LOADF V8;
\*   0x228 0x5011; 0x8008; 0xE000; 0xF0FF; CLS; JMPR 0x233 (V0 = 3: to 0x236);
\*   0x234 NOP; 0x236 CALL 0x23C; 0x238 EXIT; 0x23A NOP; 0x23C RET
MiscRom ==
    Bytes(<<\h00FF, \h6003, \h6182, \h8210, \hF029, \hD005,
            \h00C2, \h00FB, \h00FC, \hF030, \hD000, \h00FE, \hF115, \hF018,
            \hF507, \hF11E, \hF275, \hF185, \hF875, \hF885,
            \h5011, \h8008, \hE000, \hF0FF, \h00E0, \hB233,
            \h0000, \h223C, \h00FD, \h0000, \h00EE>>)

\* RAND V0 & 3; DELR V0; SNDR V0; TIMR V1; KEY V2; 0x20A TIMR V3; JMP 0x20A
TimerRom == Bytes(<<\hC003, \hF015, \hF018, \hF107, \hF20A, \hF307, \h120A>>)

\* MOV V2, 0x1B; SKPK V2; ADD V3, 1; SKPNK V2; ADD V4, 1; JMP 0x200
KeyTestRom == Bytes(<<\h621B, \hE29E, \h7301, \hE2A1, \h7401, \h1200>>)

\* one byte more than fits above INITIAL_ADDR, every byte 0x12
TooLargeRom == [k \in 1..(MEMORY_SIZE - INITIAL_ADDR + 1) |-> \h12]

\* the two-register operations with Y = F and with Y = X:
\*   RAND V2; RAND VF; op V2 VF; RAND V2; op V2 V2
\* for op = ADDR, SUBR, RSUBR, SHR, SHL in turn; EXIT
RegsRom ==
    Bytes(<<\hC2FF, \hCFFF, \h82F4, \hC2FF, \h8224,
            \hC2FF, \hCFFF, \h82F5, \hC2FF, \h8225,
            \hC2FF, \hCFFF, \h82F7, \hC2FF, \h8227,
            \hC2FF, \hCFFF, \h82F6, \hC2FF, \h8226,
            \hC2FF, \hCFFF, \h82FE, \hC2FF, \h822E, \h00FD>>)

\* words outside the instruction list, where their operation would show:
\*   0x200 0x5011 (V0 = V1); MOV V0, 5; MOV V1, 1; 0x9011 (V0 # V1); MOV V2, 7;
\*   0x20A DIGIT V0; DRAW V0 V0 5; 0x01E0; CALL 0x214; 0x212 EXIT; 0x214 0x0FEE
DecodeRom ==
    Bytes(<<\h5011, \h6005, \h6101, \h9011, \h6207, \hF029, \hD005, \h01E0,
            \h2214, \h00FD, \h0FEE>>)

\* mode (LORES or HIRES); MOV V0, 1; DIGIT V0; MOV V4, 0; DRAW V4 V4 5;
\* MOV V0, 0; DIGIT V0; RAND V1 & 0x7F; RAND V2 & 0x3F; DRAW V1 V2 5 three
\* times; EXIT: the digit 1 at (0, 0), then the digit 0 three times at a
\* place that may be cut by the right or the bottom edge
DrawRom(mode) ==
    Bytes(<<mode, \h6001, \hF029, \h6400, \hD445, \h6000, \hF029, \hC17F, \hC23F,
            \hD125, \hD125, \hD125, \h00FD>>)
LowDrawRom == DrawRom(\h00FE)
HighDrawRom == DrawRom(\h00FF)
\* HIRES; MOV VF, 9; MOVI 0xFFF; DRAW V0 V0 2
HighDrawEndRom == Bytes(<<\h00FF, \h6F09, \hAFFF, \hD002>>)

\* low resolution: DIGIT V0; DRAW V0 V0 5; SCD 2; SCR; SCL; SCD 3; EXIT
LowScrollRom ==
    Bytes(<<\hF029, \hD005, \h00C2, \h00FB, \h00FC, \h00C3, \h00FD>>)

\* MOVI 0x400; MOV V0, 0x11; MOV V1, 0x22; SAVE V1; MOV V0, 0x33; MOV V1, 0x44;
\* 0x20C LOAD V1; MOVI 0x400; MOV V0, 0x55; 0x212 LOAD V1; EXIT
RoundTripRom ==
    Bytes(<<\hA400, \h6011, \h6122, \hF155, \h6033, \h6144, \hF165,
            \hA400, \h6055, \hF165, \h00FD>>)

\* MOV V0, 0x11; MOV V1, 0x22; MOV V2, 0x33; 0x206 LOADF V3; 0x208 SAVEF V2;
\* MOV V0, 0x44; MOV V3, 0x55; 0x20E LOADF V2; 0x210 SAVEF V9; 0x212 LOADF V9;
\* MOV V0, 0x77; 0x216 LOADF V7; EXIT
FlagsRom ==
    Bytes(<<\h6011, \h6122, \h6233, \hF385, \hF275, \h6044, \h6355, \hF285,
            \hF975, \hF985, \h6077, \hF785, \h00FD>>)

\* MOVI 0x300; RAND V3; BCD V3; ADD V3, 99; BCD V3; ADD V3, 100; BCD V3; EXIT
BcdRom ==
    Bytes(<<\hA300, \hC3FF, \hF333, \h7363, \hF333, \h7364, \hF333, \h00FD>>)

\* MOV V2, 0x10; RAND V0 & 0x82; 0x204 JMPR 0x208 (to 0x208, 0x20A or 0x28A);
\* NOP; 0x208 MOV V0, 0xFF; 0x20A JMPR 0xFF1 (0xFF1 + 0xFF is past MEMORY_SIZE)
JmprRom == Bytes(<<\h6210, \hC082, \hB208, \h0000, \h60FF, \hBFF1>>)

\* MOV VF, 1; RAND V2; 0x204 ADD V2, 0xC8; 0x206 ADD VF, 0xFF; EXIT
AddRom == Bytes(<<\h6F01, \hC2FF, \h72C8, \h7FFF, \h00FD>>)

Roms == {KeyRom, JmpSelfRom, JmpLastByteRom, JmpLastWordRom, SkipAtEndRom,
         MemRom, BcdEndRom, SaveEndRom, LoadEndRom, DrawEndRom,
         ArithRom, ShiftRom, SkipRom, NestRom, MiscRom, TimerRom,
         KeyTestRom, TooLargeRom, RegsRom, DecodeRom,
         LowDrawRom, HighDrawRom, HighDrawEndRom, LowScrollRom,
         RoundTripRom, FlagsRom, BcdRom, JmprRom, AddRom}

----------------------------------------------------------------------------
(* The state machine *)

\* the core as the callbacks see it
Self ==
    [registers |-> registers, i_register |-> i_register, memory |-> memory,
     pc |-> pc, stack |-> stack, store_keypress |-> store_keypress,
     delay_timer |-> delay_timer, sound_timer |-> sound_timer,
     frame_buffer |-> frame_buffer, high_resolution |-> high_resolution,
     keypad_state |-> keypad_state, quirk_memory |-> quirk_memory,
     quirk_shift |-> quirk_shift, flags_file |-> flags_file, status |-> status]

\* the variables the callbacks can write take their values from core n
Becomes(n) ==
    /\ registers' = n.registers
    /\ i_register' = n.i_register
    /\ memory' = n.memory
    /\ pc' = n.pc
    /\ stack' = n.stack
    /\ store_keypress' = n.store_keypress
    /\ delay_timer' = n.delay_timer
    /\ sound_timer' = n.sound_timer
    /\ frame_buffer' = n.frame_buffer
    /\ high_resolution' = n.high_resolution
    /\ flags_file' = n.flags_file
    /\ status' = n.status

\* what `last` records of a step that executes no instruction
Step(op) == [op |-> op, name |-> "", raw |-> 0, addr |-> 0, io |-> "ok"]

\* load_game: Chip8Core::with_quirks (Cpu::new inside) and Cpu::load_program
Init ==
    /\ rom \in Roms
    /\ quirk_memory \in BOOLEAN
    /\ quirk_shift \in BOOLEAN
    /\ registers = [r \in 0..15 |-> 0]
    /\ i_register = 0
    /\ memory = load_program(NewMemory, rom)
    /\ pc = INITIAL_ADDR
    /\ stack = <<>>
    /\ store_keypress = <<>>
    /\ delay_timer = 0
    /\ sound_timer = 0
    /\ frame_buffer = EmptyBuffer
    /\ high_resolution = FALSE
    /\ keypad_state = [k \in 0..(KEYPAD_SIZE - 1) |-> FALSE]
    /\ wave_idx = 0
    /\ flags_file = <<>>
    /\ status = "running"
    /\ phase = "idle"
    /\ iter = 0
    /\ ticks = 0
    /\ last = Step("load_game")
    /\ audio_on = FALSE

\* run, lines 609-624: the keypad is sampled and both timers are decremented
RunBegin ==
    /\ status = "running"
    /\ phase = "idle"
    /\ ticks < MaxTicks
    /\ \E keys \in Keypads :
          keypad_state' = [k \in 0..(KEYPAD_SIZE - 1) |-> k \in keys]
    /\ delay_timer' = saturating_sub(delay_timer, 1)
    /\ sound_timer' = saturating_sub(sound_timer, 1)
    /\ phase' = "loop"
    /\ iter' = 0
    /\ last' = Step("sample")
    /\ UNCHANGED <<registers, i_register, memory, pc, stack, store_keypress,
                   frame_buffer, high_resolution, wave_idx, quirk_memory,
                   quirk_shift, flags_file, status, ticks, rom, audio_on>>

\* mutant of loop_continues: the loop makes one pass more
loop_continues_inclusive(i, latch) == i <= INSTRUCTIONS_PER_FRAME /\ latch = <<>>

\* mutant of loop_continues: the loop does not look at the keypress latch
loop_ignores_latch(i, latch) == i < INSTRUCTIONS_PER_FRAME

\* run, lines 626-629: the loop goes on while fewer than INSTRUCTIONS_PER_FRAME
\* instructions ran in this tick and no keypress is awaited
loop_continues(i, latch) == i < INSTRUCTIONS_PER_FRAME /\ latch = <<>>

\* the instruction the next fetch decodes, "" when the fetch panics
NextInstruction ==
    LET fetched == fetch_instruction(Self)
    IN  IF fetched[1].status = "panicked" THEN Step("execute")
        ELSE [op |-> "execute", name |-> decode_instruction(fetched[2]),
              raw |-> fetched[2], addr |-> pc, io |-> "ok"]

\* run, line 630: one pass of the instruction loop
ExecuteInstruction ==
    /\ status = "running"
    /\ phase = "loop"
    /\ loop_continues(iter, store_keypress)
    /\ \E rnd \in (IF NextInstruction.name = "RAND" THEN RandomBytes ELSE {0}),
          io \in (IF NextInstruction.name \in {"SAVEF", "LOADF"}
                  THEN IoOutcomes ELSE {"ok"}) :
          /\ Becomes(execute_instruction(Self, rnd, io))
          /\ last' = [NextInstruction EXCEPT !.io = io]
    /\ iter' = iter + 1
    /\ UNCHANGED <<keypad_state, wave_idx, quirk_memory, quirk_shift, phase,
                   ticks, rom, audio_on>>

\* mutant of position: the last pressed key instead of the first
rposition(keypad) ==
    IF \E k \in DOMAIN keypad : keypad[k]
    THEN <<CHOOSE k \in DOMAIN keypad :
              keypad[k] /\ \A j \in DOMAIN keypad : keypad[j] => j <= k>>
    ELSE <<>>

\* Iterator::position: <<index of the first pressed key>>, <<>> when none is
position(keypad) ==
    IF \E k \in DOMAIN keypad : keypad[k]
    THEN <<CHOOSE k \in DOMAIN keypad :
              keypad[k] /\ \A j \in DOMAIN keypad : keypad[j] => k <= j>>
    ELSE <<>>

\* mutant of resolve_keypress: the key is stored but the latch is not cleared
resolve_keeps_latch(s) ==
    IF s.store_keypress # <<>> /\ position(s.keypad_state) # <<>>
    THEN [s EXCEPT !.registers[s.store_keypress[1]] = position(s.keypad_state)[1]]
    ELSE s

\* run, lines 633-638: the awaited keypress is stored once a key is down
resolve_keypress(s) ==
    IF s.store_keypress # <<>> /\ position(s.keypad_state) # <<>>
    THEN [s EXCEPT !.registers[s.store_keypress[1]] = position(s.keypad_state)[1],
                   !.store_keypress = <<>>]
    ELSE s

\* mutant of audio_gate: a frame is emitted only while the timer is above 1
audio_gate_above_one(s) == s.sound_timer > 1

\* run, lines 662-665: an audio frame is uploaded when the sound timer is not 0
audio_gate(s) == s.sound_timer # 0

\* run, lines 633-665: the end of a tick, after the instruction loop
RunEnd ==
    /\ status = "running"
    /\ phase = "loop"
    /\ ~loop_continues(iter, store_keypress)
    /\ Becomes(resolve_keypress(Self))
    /\ wave_idx' = (wave_idx + 1) % MAX_WAVE_IDX
    /\ audio_on' = audio_gate(resolve_keypress(Self))
    /\ phase' = "idle"
    /\ ticks' = ticks + 1
    /\ last' = Step("resolve")
    /\ UNCHANGED <<keypad_state, quirk_memory, quirk_shift, iter, rom>>

\* Chip8Core::reset: the body is empty
reset(s) == s

Reset ==
    /\ status = "running"
    /\ phase = "idle"
    /\ last.op # "reset"
    /\ Becomes(reset(Self))
    /\ last' = Step("reset")
    /\ UNCHANGED <<keypad_state, wave_idx, quirk_memory, quirk_shift, phase,
                   iter, ticks, rom, audio_on>>

Next == RunBegin \/ ExecuteInstruction \/ RunEnd \/ Reset

Spec == Init /\ [][Next]_vars

TypeOK ==
    /\ registers \in [0..15 -> 0..255]
    /\ i_register \in 0..65535
    /\ pc \in 0..(MEMORY_SIZE + 2)
    /\ \A k \in 1..Len(stack) : stack[k] \in 0..(MEMORY_SIZE + 2)
    /\ store_keypress \in {<<>>} \cup {<<x>> : x \in 0..15}
    /\ delay_timer \in 0..255
    /\ sound_timer \in 0..255
    /\ \A r \in 0..(SCREEN_HEIGHT - 1) : frame_buffer[r] \subseteq 0..(SCREEN_WIDTH - 1)
    /\ status \in {"running", "panicked", "exited"}
    /\ phase \in {"idle", "loop"}
    /\ iter \in 0..INSTRUCTIONS_PER_FRAME
    /\ wave_idx \in 0..(MAX_WAVE_IDX - 1)

----------------------------------------------------------------------------
(* Claims *)

\* this step executes the instruction called nm
Executes(nm) == iter' = iter + 1 /\ last'.name = nm
\* this step is the end of a tick (the part of run after the instruction loop)
TickEnds == phase = "loop" /\ phase' = "idle"
\* the keys down in the current keypad sample
Pressed == {k \in 0..(KEYPAD_SIZE - 1) : keypad_state[k]}
LowestPressed == CHOOSE k \in Pressed : \A j \in Pressed : k <= j
\* operand fields of a raw instruction
FieldX(raw) == (raw \div 256) % 16
FieldY(raw) == (raw \div 16) % 16
FieldNN(raw) == raw % 256
FieldNNN(raw) == raw % 4096

\* C1: while the keypress latch is set no step executes an instruction, and
\* for as long as it stays set PC, I, the V registers, memory, the stack, the
\* framebuffer and the resolution flag do not change.
C1_LatchSuppressesExecution ==
    [][store_keypress # <<>> =>
          /\ iter' # iter + 1
          /\ store_keypress' # <<>> =>
                UNCHANGED <<pc, i_register, registers, memory, stack,
                            frame_buffer, high_resolution>>]_vars

\* a whole tick has passed with the latch set and no instruction executed
C1_Witness ==
    /\ store_keypress # <<>>
    /\ last.op = "resolve"
    /\ iter = 0
    /\ ticks >= 2

\* C2: at the end of every tick, a set latch X with a key down in this tick's
\* sample stores the lowest pressed key in VX and clears the latch; with no key
\* down the latch stays set and no register changes.
C2_LatchResolution ==
    [][(TickEnds /\ store_keypress # <<>>) =>
          IF Pressed # {}
          THEN /\ registers' = [registers EXCEPT ![store_keypress[1]] = LowestPressed]
               /\ store_keypress' = <<>>
          ELSE /\ store_keypress' = store_keypress
               /\ registers' = registers]_vars

\* keys 3 and 11 were down at the end of a tick that began with the latch set
C2_Witness ==
    /\ last.op = "resolve"
    /\ iter = 0
    /\ store_keypress = <<>>
    /\ keypad_state[3] /\ keypad_state[11]
    /\ registers[3] = 3

\* C3 as stated: at the end of the tick in which KEY executed the latch is
\* still set and no register was written, whatever keys are down.
C3_LatchHeldInKeyTick ==
    [][(TickEnds /\ last.name = "KEY") =>
          /\ store_keypress' # <<>>
          /\ registers' = registers]_vars

\* C3 amended: in the tick in which KEY VX executes no later instruction runs;
\* at its end the latch is still set and no register is written when no key is
\* down in that tick's sample, and when a key is down the lowest pressed key
\* is written to VX and the latch is cleared in that same tick.
C3_KeyTickResolution ==
    [][(TickEnds /\ last.name = "KEY") =>
          /\ pc = last.addr + 2 /\ pc' = pc
          /\ store_keypress = <<FieldX(last.raw)>>
          /\ IF Pressed = {}
             THEN store_keypress' = store_keypress /\ registers' = registers
             ELSE /\ store_keypress' = <<>>
                  /\ registers' = [registers EXCEPT ![FieldX(last.raw)] = LowestPressed]]_vars

\* KEY V3 ran as the first instruction of the first tick with keys 3 and 11
\* down, and that tick has ended
C3_Witness ==
    /\ rom = KeyRom
    /\ ticks = 1
    /\ last.op = "resolve"
    /\ iter = 1
    /\ pc = INITIAL_ADDR + 2
    /\ keypad_state[3]
    /\ store_keypress = <<>>
    /\ registers[3] = 3

\* C4: no tick ends in a fault: the host process is never stopped by a panic.
C4_NoFault == status # "panicked"

\* C5: BCD, SAVE, LOAD and DRAW never fault on their memory accesses, and the
\* bytes they store or load are those at (I + offset) mod 4096.
C5_AddressesWrap ==
    [][\A nm \in {"BCD", "SAVE", "LOAD", "DRAW"} :
          Executes(nm) =>
             LET x == FieldX(last'.raw)
                 at(offset) == (i_register + offset) % MEMORY_SIZE
             IN  /\ status' = "running"
                 /\ nm = "BCD" =>
                       /\ peek(memory', at(0)) = registers[x] \div 100
                       /\ peek(memory', at(1)) = (registers[x] \div 10) % 10
                       /\ peek(memory', at(2)) = registers[x] % 10
                 /\ nm = "SAVE" =>
                       \A reg \in 0..x : peek(memory', at(reg)) = registers[reg]
                 /\ nm = "LOAD" =>
                       \A reg \in 0..x : registers'[reg] = peek(memory, at(reg))]_vars

\* C6: right after reset() the machine is in its initial conditions.
C6_ResetRestoresInitial ==
    last.op = "reset" =>
        /\ pc = INITIAL_ADDR
        /\ registers = [r \in 0..15 |-> 0]
        /\ i_register = 0
        /\ delay_timer = 0 /\ sound_timer = 0
        /\ stack = <<>>
        /\ store_keypress = <<>>
        /\ frame_buffer = EmptyBuffer
        /\ memory = load_program(NewMemory, rom)

\* C7: ADDR, SUBR and RSUBR with destination VF leave the carry / no-borrow
\* flag in VF, not the arithmetic result.
C7_FlagWinsArith ==
    [][\A nm \in {"ADDR", "SUBR", "RSUBR"} :
          (Executes(nm) /\ FieldX(last'.raw) = 15) =>
             LET vx == registers[15]
                 vy == registers[FieldY(last'.raw)]
             IN  registers'[15] =
                    IF nm = "ADDR" THEN (IF vx + vy >= 256 THEN 1 ELSE 0)
                    ELSE IF nm = "SUBR" THEN (IF vx >= vy THEN 1 ELSE 0)
                    ELSE (IF vy >= vx THEN 1 ELSE 0)]_vars

\* ADDR VF V1 has just carried with V1 = 254, so the sum byte (VF - 2) is not 1
C7_Witness ==
    /\ last.op = "execute" /\ last.raw = \h8F14
    /\ registers[1] = 254
    /\ registers[15] = 1

\* C8: SHR and SHL with destination VF leave the bit shifted out of the source
\* in VF, not the shifted value, under either setting of the shift quirk.
C8_FlagWinsShift ==
    [][\A nm \in {"SHR", "SHL"} :
          (Executes(nm) /\ FieldX(last'.raw) = 15) =>
             LET src == IF quirk_shift THEN registers[15]
                        ELSE registers[FieldY(last'.raw)]
             IN  registers'[15] = IF nm = "SHR" THEN src % 2 ELSE src \div 128]_vars

\* whether the instruction at the program counter, a skip called nm, skips
SkipPredicate(nm, raw) ==
    LET vx == registers[FieldX(raw)]
        vy == registers[FieldY(raw)]
    IN  CASE nm = "SKPEQ"  -> vx = FieldNN(raw)
          [] nm = "SKPNE"  -> vx # FieldNN(raw)
          [] nm = "SKPEQR" -> vx = vy
          [] nm = "SKPNER" -> vx # vy
          [] nm = "SKPK"   -> keypad_state[vx % 16]
          [] nm = "SKPNK"  -> ~keypad_state[vx % 16]

\* C9: an instruction fetched at p leaves PC = NNN when it is JMP or CALL,
\* p + 4 when it is a skip whose predicate holds, and p + 2 when it is a skip
\* whose predicate fails or any other instruction (RET and JMP-V0, which load
\* PC themselves, aside).
C9_PcAdvance ==
    [][(iter' = iter + 1 /\ last'.name # "") =>
          LET nm == last'.name
              raw == last'.raw
          IN  IF nm \in {"JMP", "CALL"} THEN pc' = FieldNNN(raw)
              ELSE IF nm \in {"SKPEQ", "SKPNE", "SKPEQR", "SKPNER", "SKPK", "SKPNK"}
                   THEN pc' = IF SkipPredicate(nm, raw) THEN pc + 4 ELSE pc + 2
              ELSE IF nm \in {"RET", "JMPR"} THEN TRUE
              ELSE pc' = pc + 2]_vars

\* SKPEQ V0, 0 has just skipped the instruction after it
C9_Witness ==
    /\ last.op = "execute" /\ last.name = "SKPEQ"
    /\ registers[0] = 0
    /\ pc = last.addr + 4

\* C10: CALL at p pushes p + 2 on top of the stack, whatever its depth, and
\* sets PC = NNN; RET on a non-empty stack pops the top into PC; nothing else
\* changes the stack.  So d CALLs followed by d RETs restore the pushed
\* addresses in reverse order and leave the stack as it was.
C10_StackLifo ==
    [][IF Executes("CALL")
       THEN stack' = Append(stack, pc + 2) /\ pc' = FieldNNN(last'.raw)
       ELSE IF Executes("RET") /\ stack # <<>>
            THEN /\ pc' = stack[Len(stack)]
                 /\ stack' = SubSeq(stack, 1, Len(stack) - 1)
            ELSE stack' = stack]_vars

\* the NestDepth nested calls of NestRom have all returned: the last RET
\* popped the first return address, 0x202, and the stack is empty again
C10_Witness ==
    /\ rom = NestRom
    /\ NestDepth >= 16
    /\ last.op = "execute" /\ last.name = "RET"
    /\ last.addr = INITIAL_ADDR + 6
    /\ pc = INITIAL_ADDR + 2
    /\ stack = <<>>

\* C11: RET executed at p with an empty stack does nothing: the stack stays
\* empty, no register, memory byte or framebuffer cell changes (nor I, the
\* timers, the latch or the resolution), and PC is p + 2.
C11_RetUnderflowNoop ==
    [][(Executes("RET") /\ stack = <<>>) =>
          /\ stack' = <<>>
          /\ pc' = pc + 2
          /\ status' = "running"
          /\ UNCHANGED <<registers, i_register, memory, frame_buffer,
                         high_resolution, delay_timer, sound_timer,
                         store_keypress>>]_vars

\* the RET at 0x202 of NestRom has run after every call had returned
C11_Witness ==
    /\ rom = NestRom
    /\ last.op = "execute" /\ last.name = "RET"
    /\ last.addr = INITIAL_ADDR + 2
    /\ pc = INITIAL_ADDR + 4
    /\ stack = <<>>

\* this step is the start of a tick (the keypad sample and the timer decrement)
TickBegins == phase = "idle" /\ phase' = "loop"

\* C12: the start of every tick, with the keypress latch set or not, takes 1
\* off the delay timer and off the sound timer when they are above 0 and
\* leaves them at 0 otherwise; any other change of the delay timer is made by
\* DELR and any other change of the sound timer by SNDR.
C12_TimersCountDown ==
    [][/\ TickBegins =>
            /\ delay_timer' = IF delay_timer > 0 THEN delay_timer - 1 ELSE 0
            /\ sound_timer' = IF sound_timer > 0 THEN sound_timer - 1 ELSE 0
       /\ (~TickBegins /\ delay_timer' # delay_timer) => Executes("DELR")
       /\ (~TickBegins /\ sound_timer' # sound_timer) => Executes("SNDR")]_vars

\* a tick has begun with the latch set and both timers counted down, not to 0
C12_Witness ==
    /\ last.op = "sample"
    /\ store_keypress # <<>>
    /\ delay_timer > 0
    /\ sound_timer > 0

\* C13: TIMR reads the delay timer as the start of its tick left it.  In
\* TimerRom DELR stores v = V0 in the first tick: the TIMR of that tick
\* reads v, and a TIMR executed k ticks later reads max(v - k, 0).
C13_DecrementBeforeInstructions ==
    [][Executes("TIMR") =>
          /\ registers'[FieldX(last'.raw)] = delay_timer
          /\ rom = TimerRom =>
                registers'[FieldX(last'.raw)] =
                   IF registers[0] >= ticks THEN registers[0] - ticks ELSE 0]_vars

\* v = 3: the TIMR of the first tick read 3 and a TIMR two ticks later read 1
C13_Witness ==
    /\ rom = TimerRom
    /\ last.op = "execute" /\ last.name = "TIMR" /\ last.addr = INITIAL_ADDR + 10
    /\ ticks = 2
    /\ registers[0] = 3 /\ registers[1] = 3 /\ registers[3] = 1

\* C14: a tick emits an audio frame exactly when the sound timer is above 0
\* at its end.  In TimerRom SNDR stores v = V0 in tick 1: ticks 1 .. v emit
\* sound and the ticks after them emit none.
C14_AudioGate ==
    [][TickEnds =>
          /\ audio_on' = (sound_timer' > 0)
          /\ rom = TimerRom => audio_on' = (ticks' <= registers'[0])]_vars

\* v = 2: tick 3 has ended without sound
C14_Witness ==
    /\ rom = TimerRom
    /\ last.op = "resolve"
    /\ ticks = 3
    /\ registers[0] = 2
    /\ ~audio_on

\* C15: SKPK and SKPNK executed at p look up key VX mod 16 in the keypad
\* state, which only the sample at the start of a tick writes: SKPK leaves
\* PC = p + 4 iff that key is pressed in the sample of the current tick and
\* SKPNK iff it is not, PC = p + 2 otherwise.
C15_KeySkipsUseCurrentSample ==
    [][/\ \A nm \in {"SKPK", "SKPNK"} :
            Executes(nm) =>
               LET pressed == keypad_state[registers[FieldX(last'.raw)] % 16]
               IN  pc' = IF pressed = (nm = "SKPK") THEN pc + 4 ELSE pc + 2
       /\ keypad_state' # keypad_state => TickBegins]_vars

\* V2 = 0x1B: SKPK V2 has skipped on key 0xB in a tick after one in which
\* it did not skip (V3 counts the SKPKs that did not)
C15_Witness ==
    /\ rom = KeyTestRom
    /\ last.op = "execute" /\ last.name = "SKPK"
    /\ registers[2] = 27
    /\ keypad_state[11]
    /\ pc = last.addr + 4
    /\ ticks >= 1
    /\ registers[3] > 0

\* the byte at address a of a newly built Cpu: the two font tables, 0 elsewhere
FreshByte(a) ==
    IF a < Len(DIGITS) THEN DIGITS[a + 1]
    ELSE IF a >= LARGE_DIGIT_OFFSET /\ a < LARGE_DIGIT_OFFSET + Len(LARGE_DIGITS)
         THEN LARGE_DIGITS[a - LARGE_DIGIT_OFFSET + 1]
    ELSE 0

\* C16: right after the load of a program of L bytes, when L <= 4096 - 0x200
\* memory[0x200 + k] is byte k of the program for k < L and every other byte
\* is as in a new Cpu; when L is larger every byte of memory is as in a new
\* Cpu, PC is 0x200 and the core runs on (no error).
C16_LoadProgram ==
    last.op = "load_game" =>
       /\ pc = INITIAL_ADDR
       /\ status = "running"
       /\ \A a \in 0..(MEMORY_SIZE - 1) :
             peek(memory, a) =
                IF /\ Len(rom) <= MEMORY_SIZE - INITIAL_ADDR
                   /\ a >= INITIAL_ADDR /\ a < INITIAL_ADDR + Len(rom)
                THEN rom[a - INITIAL_ADDR + 1]
                ELSE FreshByte(a)

\* a program of 3585 bytes has been offered and memory at 0x200 is still 0
C16_Witness ==
    /\ last.op = "load_game"
    /\ Len(rom) > MEMORY_SIZE - INITIAL_ADDR
    /\ rom[1] # 0
    /\ peek(memory, INITIAL_ADDR) = 0

\* C17: ADDR with X # F leaves VX = (VX + VY) mod 256 and VF = 1 when
\* VX + VY >= 256, VF = 0 when not, whatever VF held before.
C17_AddrSumAndCarry ==
    [][(Executes("ADDR") /\ FieldX(last'.raw) # 15) =>
          LET sum == registers[FieldX(last'.raw)] + registers[FieldY(last'.raw)]
          IN  /\ registers'[FieldX(last'.raw)] = sum % 256
              /\ registers'[15] = IF sum >= 256 THEN 1 ELSE 0]_vars

\* ADDR V2 V1 has added 254 and 127: V2 = 125 and VF = 1
C17_Witness ==
    /\ last.op = "execute" /\ last.name = "ADDR" /\ last.raw = \h8214
    /\ registers[1] = 127
    /\ registers[2] = 125
    /\ registers[15] = 1

\* C18: with X # F, SUBR leaves VX = (VX - VY) mod 256 and VF = 1 iff
\* VX >= VY; RSUBR leaves VX = (VY - VX) mod 256 and VF = 1 iff VY >= VX.
C18_SubBorrowFlag ==
    [][\A nm \in {"SUBR", "RSUBR"} :
          (Executes(nm) /\ FieldX(last'.raw) # 15) =>
             LET vx == registers[FieldX(last'.raw)]
                 vy == registers[FieldY(last'.raw)]
                 minuend == IF nm = "SUBR" THEN vx ELSE vy
                 subtrahend == IF nm = "SUBR" THEN vy ELSE vx
             IN  /\ registers'[FieldX(last'.raw)] = (minuend - subtrahend) % 256
                 /\ registers'[15] = IF minuend >= subtrahend THEN 1 ELSE 0]_vars

\* SUBR V2 V1 has subtracted 127 from 127: V2 = 0 and VF = 1
C18_Witness ==
    /\ last.op = "execute" /\ last.name = "SUBR" /\ last.raw = \h8215
    /\ registers[1] = 127
    /\ registers[2] = 0
    /\ registers[15] = 1

\* the source, result and flag of a shift called nm of the raw instruction
ShiftSource(raw) == IF quirk_shift THEN registers[FieldX(raw)] ELSE registers[FieldY(raw)]
ShiftResult(nm, raw) ==
    IF nm = "SHR" THEN ShiftSource(raw) \div 2 ELSE (ShiftSource(raw) * 2) % 256
ShiftFlag(nm, raw) ==
    IF nm = "SHR" THEN ShiftSource(raw) % 2 ELSE ShiftSource(raw) \div 128

\* C19 as stated: SHR and SHL with X # F shift VY when the shift quirk is off
\* and VX when it is on, leave the shifted value in VX and the bit shifted
\* out in VF, and with the quirk off leave VY unchanged whenever X # Y.
C19_ShiftSourceVyKept ==
    [][\A nm \in {"SHR", "SHL"} :
          (Executes(nm) /\ FieldX(last'.raw) # 15) =>
             /\ registers'[FieldX(last'.raw)] = ShiftResult(nm, last'.raw)
             /\ registers'[15] = ShiftFlag(nm, last'.raw)
             /\ (~quirk_shift /\ FieldX(last'.raw) # FieldY(last'.raw)) =>
                   registers'[FieldY(last'.raw)] = registers[FieldY(last'.raw)]]_vars

\* C19 amended: as above, VY being left unchanged with the quirk off
\* whenever X # Y and Y # F (with Y = F the source register is VF, which
\* receives the bit shifted out).
C19_ShiftSource ==
    [][\A nm \in {"SHR", "SHL"} :
          (Executes(nm) /\ FieldX(last'.raw) # 15) =>
             /\ registers'[FieldX(last'.raw)] = ShiftResult(nm, last'.raw)
             /\ registers'[15] = ShiftFlag(nm, last'.raw)
             /\ (~quirk_shift /\ FieldX(last'.raw) # FieldY(last'.raw)
                              /\ FieldY(last'.raw) # 15) =>
                   registers'[FieldY(last'.raw)] = registers[FieldY(last'.raw)]]_vars

\* quirk off: SHR V2 V1 has shifted V1 = 127 into V2 = 63 with VF = 1, and V1
\* is still 127
C19_Witness ==
    /\ ~quirk_shift
    /\ last.op = "execute" /\ last.name = "SHR" /\ last.raw = \h8216
    /\ registers[1] = 127
    /\ registers[2] = 63
    /\ registers[15] = 1

\* the operation the instruction list gives the word raw, NOP when the word
\* matches none of the listed encodings exactly
ListedName(raw) ==
    LET top == raw \div 4096
        low4 == raw % 16
        low8 == raw % 256
    IN  CASE top = 0 /\ raw \in \h00C0..\h00CF -> "SCD"
          [] raw = \h00E0 -> "CLS"    [] raw = \h00EE -> "RET"
          [] raw = \h00FB -> "SCR"    [] raw = \h00FC -> "SCL"
          [] raw = \h00FD -> "EXIT"   [] raw = \h00FE -> "LORES"
          [] raw = \h00FF -> "HIRES"
          [] top = 1 -> "JMP"          [] top = 2 -> "CALL"
          [] top = 3 -> "SKPEQ"        [] top = 4 -> "SKPNE"
          [] top = 5 /\ low4 = 0 -> "SKPEQR"
          [] top = 6 -> "MOV"          [] top = 7 -> "ADD"
          [] top = 8 /\ low4 = 0 -> "MOVR"   [] top = 8 /\ low4 = 1 -> "OR"
          [] top = 8 /\ low4 = 2 -> "AND"    [] top = 8 /\ low4 = 3 -> "XOR"
          [] top = 8 /\ low4 = 4 -> "ADDR"   [] top = 8 /\ low4 = 5 -> "SUBR"
          [] top = 8 /\ low4 = 6 -> "SHR"    [] top = 8 /\ low4 = 7 -> "RSUBR"
          [] top = 8 /\ low4 = 14 -> "SHL"
          [] top = 9 /\ low4 = 0 -> "SKPNER"
          [] top = 10 -> "MOVI"        [] top = 11 -> "JMPR"
          [] top = 12 -> "RAND"        [] top = 13 -> "DRAW"
          [] top = 14 /\ low8 = \h9E -> "SKPK"
          [] top = 14 /\ low8 = \hA1 -> "SKPNK"
          [] top = 15 /\ low8 = \h07 -> "TIMR"   [] top = 15 /\ low8 = \h0A -> "KEY"
          [] top = 15 /\ low8 = \h15 -> "DELR"   [] top = 15 /\ low8 = \h18 -> "SNDR"
          [] top = 15 /\ low8 = \h1E -> "ADDI"   [] top = 15 /\ low8 = \h29 -> "DIGIT"
          [] top = 15 /\ low8 = \h30 -> "LDIGIT" [] top = 15 /\ low8 = \h33 -> "BCD"
          [] top = 15 /\ low8 = \h55 -> "SAVE"   [] top = 15 /\ low8 = \h65 -> "LOAD"
          [] top = 15 /\ low8 = \h75 -> "SAVEF"  [] top = 15 /\ low8 = \h85 -> "LOADF"
          [] OTHER -> "NOP"

\* C20: every word a program executes decodes to the operation of the listed
\* encoding it matches exactly, and to NOP when it matches none (0x5XYN and
\* 0x9XYN with N # 0 and 0x0XNN with X # 0 among them).
C20_DecoderExact ==
    (last.op = "execute" /\ last.name # "") => last.name = ListedName(last.raw)

\* this step executes the instruction called nm to its end.  A panic aborts
\* the process in the middle of the instruction: the instruction has no
\* effect to speak of and nothing runs after it.
Completes(nm) == Executes(nm) /\ status' # "panicked"

\* some framebuffer cell that is on before this step is off after it
SomeCellTurnedOff ==
    \E r \in 0..(SCREEN_HEIGHT - 1) : frame_buffer[r] \ frame_buffer'[r] # {}

\* C21: in low resolution a DRAW leaves VF = 1 when it turned off a cell
\* that was on and VF = 0 when it did not, and no other value, whether or not
\* the sprite is cut by the bottom or the right edge.
C21_LowResCollisionFlag ==
    [][(Completes("DRAW") /\ ~high_resolution) =>
          registers'[15] = IF SomeCellTurnedOff THEN 1 ELSE 0]_vars

\* the operand N of a raw instruction
FieldN(raw) == raw % 16

\* bit j (0 is the leftmost) of row i of the sprite at I, which has two bytes
\* a row when wide and one when not
SpriteBit(wide, i, j) ==
    LET data == IF wide
                THEN peek(memory, i_register + 2 * i) * 256
                     + peek(memory, i_register + 2 * i + 1)
                ELSE peek(memory, i_register + i) * 256
    IN  (data \div Pow2(15 - j)) % 2 = 1

\* what VF is to be after the high-resolution DRAW raw: the sprite rows on
\* the screen in which a set bit meets a cell that is on, plus the sprite
\* rows below the bottom edge
HighResFlag(raw) ==
    LET wide == FieldN(raw) = 0
        n == IF wide THEN 16 ELSE FieldN(raw)
        x == registers[FieldX(raw)] % SCREEN_WIDTH
        y == registers[FieldY(raw)] % SCREEN_HEIGHT
        hit == {i \in 0..(n - 1) :
                  /\ y + i < SCREEN_HEIGHT
                  /\ \E j \in 0..(IF wide THEN 15 ELSE 7) :
                        /\ x + j < SCREEN_WIDTH
                        /\ SpriteBit(wide, i, j)
                        /\ (x + j) \in frame_buffer[y + i]}
        below == {i \in 0..(n - 1) : y + i >= SCREEN_HEIGHT}
    IN  Cardinality(hit) + Cardinality(below)

DigitOneCols == <<{2}, {1, 2}, {2}, {2}, {1, 2, 3}>>
DigitOneBuffer(scale) ==
    [r \in 0..(SCREEN_HEIGHT - 1) |->
        IF r < DIGIT_SIZE * scale
        THEN {scale * c + o : c \in DigitOneCols[(r \div scale) + 1],
                              o \in 0..(scale - 1)}
        ELSE {}]

\* C23: the same DRAW executed twice in a row restores the framebuffer, at
\* every position, and in low resolution leaves VF = 1 when the sprite has a
\* bit set.  In LowDrawRom and HighDrawRom the digit 0 is drawn twice over a
\* framebuffer that holds the digit 1 at (0, 0): after the second draw the
\* framebuffer holds the digit 1 alone again and, in low resolution, VF = 1.
C23_DrawTwiceRestores ==
    (/\ rom \in {LowDrawRom, HighDrawRom}
     /\ last.op = "execute" /\ last.name = "DRAW"
     /\ last.addr = INITIAL_ADDR + 20) =>
       /\ frame_buffer = DigitOneBuffer(IF high_resolution THEN 1 ELSE 2)
       /\ ~high_resolution => registers[15] = 1

\* the framebuffer moved down by k rows, or right by k columns (left when k
\* is negative), the cells moved in from outside being off
MovedDown(buffer, k) ==
    [r \in 0..(SCREEN_HEIGHT - 1) |-> IF r >= k THEN buffer[r - k] ELSE {}]
MovedRight(buffer, k) ==
    [r \in 0..(SCREEN_HEIGHT - 1) |->
        {c + k : c \in {d \in buffer[r] : d + k \in 0..(SCREEN_WIDTH - 1)}}]

\* C24: SCD N moves the framebuffer down by N rows in high resolution and by
\* N / 2 rows in low resolution; SCR and SCL move it right and left by 4
\* columns in high resolution and by 2 columns in low resolution.
C24_LowResScrollHalved ==
    [][/\ Executes("SCD") =>
            frame_buffer' =
               MovedDown(frame_buffer, IF high_resolution THEN FieldN(last'.raw)
                                       ELSE FieldN(last'.raw) \div 2)
       /\ Executes("SCR") =>
            frame_buffer' = MovedRight(frame_buffer, IF high_resolution THEN 4 ELSE 2)
       /\ Executes("SCL") =>
            frame_buffer' = MovedRight(frame_buffer, IF high_resolution THEN -4 ELSE -2)
      ]_vars

\* C25: a step changes the framebuffer only by executing CLS, DRAW, SCD, SCR
\* or SCL (so no other instruction, the timer update and the keypress
\* resolution do not); LORES and HIRES set the resolution flag; CLS leaves
\* every cell off in either resolution.
C25_FramebufferWriters ==
    [][/\ frame_buffer' # frame_buffer =>
            \E nm \in {"CLS", "DRAW", "SCD", "SCR", "SCL"} : Executes(nm)
       /\ Executes("LORES") => ~high_resolution'
       /\ Executes("HIRES") => high_resolution'
       /\ Executes("CLS") =>
            \A r \in 0..(SCREEN_HEIGHT - 1) : frame_buffer'[r] = {}]_vars

\* LORES has executed on a framebuffer that has cells on, which it kept
C25_Witness ==
    /\ last.op = "execute" /\ last.name = "LORES"
    /\ ~high_resolution
    /\ \E r \in 0..(SCREEN_HEIGHT - 1) : frame_buffer[r] # {}

\* C26: SAVE with operand X stores V0..VX at memory[I .. I + X] and changes no
\* other byte of memory and no register; LOAD with operand X sets V0..VX
\* from memory[I .. I + X] and changes no memory and no other register.
\* Either leaves I + X + 1 in I when the memory quirk is off and I as it was
\* when it is on.
C26_SaveLoadEffect ==
    [][LET x == FieldX(last'.raw)
           moved == IF quirk_memory THEN i_register ELSE i_register + x + 1
       IN  /\ Completes("SAVE") =>
                /\ \A m \in 0..(MEMORY_SIZE - 1) :
                      peek(memory', m) =
                         IF m \in i_register..(i_register + x)
                         THEN registers[m - i_register] ELSE peek(memory, m)
                /\ registers' = registers
                /\ i_register' = moved
           /\ Completes("LOAD") =>
                /\ \A r \in 0..15 :
                      registers'[r] =
                         IF r <= x THEN peek(memory, i_register + r) ELSE registers[r]
                /\ memory' = memory
                /\ i_register' = moved]_vars

\* memory quirk off: SAVE V1 at I = 0x400 has stored V0 and V1, left the byte
\* after them as BCD wrote it, and left I = 0x402
C26_Witness ==
    /\ rom = MemRom
    /\ ~quirk_memory
    /\ last.op = "execute" /\ last.name = "SAVE"
    /\ registers[0] = 127 /\ registers[1] = 254
    /\ peek(memory, 1024) = 127 /\ peek(memory, 1025) = 254 /\ peek(memory, 1026) = 7
    /\ i_register = 1026

\* C27 as stated: SAVE X followed by LOAD X, V0..VX overwritten in between
\* and I not assigned by the program, restores V0..VX, and under the memory
\* quirk I is after both what it was before.  In RoundTripRom SAVE V1 stores
\* V0 = 0x11, V1 = 0x22 at I = 0x400 and the LOAD V1 at 0x20C is such a LOAD.
C27_SaveThenLoadRestores ==
    (rom = RoundTripRom /\ last.op = "execute" /\ last.name = "LOAD"
       /\ last.addr = INITIAL_ADDR + 12 /\ status = "running") =>
       /\ registers[0] = 17 /\ registers[1] = 34
       /\ quirk_memory => i_register = 1024

\* C27 amended: under the memory quirk the LOAD restores V0..VX and I is what
\* it was before the SAVE; with the quirk off I has moved on by X + 1, the
\* LOAD reads the bytes after the saved ones, and V0..VX are restored by a
\* LOAD X for which the program has set I back (the LOAD V1 at 0x212).
C27_SaveThenLoad ==
    (rom = RoundTripRom /\ last.op = "execute" /\ last.name = "LOAD"
       /\ status = "running") =>
       IF last.addr = INITIAL_ADDR + 12
       THEN IF quirk_memory
            THEN registers[0] = 17 /\ registers[1] = 34 /\ i_register = 1024
            ELSE registers[0] = 0 /\ registers[1] = 0 /\ i_register = 1028
       ELSE registers[0] = 17 /\ registers[1] = 34

\* memory quirk on: the LOAD V1 at 0x20C has restored V0 and V1 over 0x33
\* and 0x44, with I still 0x400
C27_Witness ==
    /\ rom = RoundTripRom
    /\ quirk_memory
    /\ last.op = "execute" /\ last.name = "LOAD" /\ last.addr = INITIAL_ADDR + 12
    /\ registers[0] = 17 /\ registers[1] = 34
    /\ i_register = 1024

\* the bytes LOADF finds in the flags file: none while the file does not exist
StoredFlags == IF flags_file = <<>> THEN <<>> ELSE flags_file[1]

\* everything the virtual machine holds except the program counter
MachineUnchanged ==
    UNCHANGED <<memory, registers, i_register, stack, store_keypress,
                delay_timer, sound_timer, frame_buffer, high_resolution,
                keypad_state, quirk_memory, quirk_shift>>

\* C28: SAVEF and LOADF with X > 7 change nothing.  For X <= 7 a SAVEF the
\* file system carries out leaves exactly V0..VX in the flags store and
\* changes no register; nothing but SAVEF changes the store; and a LOADF the
\* file system carries out on a store of X + 1 bytes sets V0..VX to them and
\* leaves V(X+1)..VF as they were: SAVEF X, any register changes, LOADF X
\* restores V0..VX.
C28_FlagsRoundTrip ==
    [][LET x == FieldX(last'.raw)
       IN  /\ ((Executes("SAVEF") \/ Executes("LOADF")) /\ x > 7) =>
                (MachineUnchanged /\ flags_file' = flags_file)
           /\ (Executes("SAVEF") /\ x <= 7 /\ last'.io = "ok") =>
                /\ flags_file' = << [k \in 1..(x + 1) |-> registers[k - 1]] >>
                /\ MachineUnchanged
           /\ (iter' = iter + 1 /\ last'.name # "SAVEF") => flags_file' = flags_file
           /\ (Executes("LOADF") /\ x <= 7 /\ last'.io = "ok"
                  /\ Len(StoredFlags) = x + 1) =>
                registers' = [r \in 0..15 |->
                                 IF r <= x THEN StoredFlags[r + 1] ELSE registers[r]]]_vars

\* LOADF V2 at 0x20E has put back the V0..V2 that SAVEF V2 stored, over the
\* 0x44 written to V0 in between, and has left V3 = 0x55 as it was
C28_Witness ==
    /\ rom = FlagsRom
    /\ last.op = "execute" /\ last.name = "LOADF" /\ last.addr = INITIAL_ADDR + 14
    /\ last.io = "ok"
    /\ flags_file = << <<17, 34, 51>> >>
    /\ registers[0] = 17 /\ registers[1] = 34 /\ registers[2] = 51
    /\ registers[3] = 85

\* C29: a LOADF that cannot be satisfied, because the flags store does not
\* exist, holds fewer than X + 1 bytes, or cannot be read, leaves every V
\* register as it was; a SAVEF that fails changes no state of the machine.
C29_FailedFlagsNoop ==
    [][LET x == FieldX(last'.raw)
       IN  /\ (Executes("LOADF")
                  /\ (flags_file = <<>> \/ Len(StoredFlags) < x + 1 \/ last'.io # "ok")) =>
                registers' = registers
           /\ (Executes("SAVEF") /\ last'.io # "ok") => MachineUnchanged]_vars

\* C30: EXIT ends the virtual machine by a signal the host can observe, not
\* by ending the host's process: once EXIT has executed no further
\* instruction can execute, and the tick that executed it can still return
\* to the host.  (status = "exited" is the process after process::exit(0).)
C30_ExitReturnsToHost ==
    (last.op = "execute" /\ last.name = "EXIT") =>
        /\ ~ENABLED ExecuteInstruction
        /\ ENABLED RunEnd

\* C31: a BCD VX with I, I + 1 and I + 2 inside memory writes there three
\* bytes h, t, o, each in 0..9, with 100 * h + 10 * t + o = VX, and changes
\* no other byte of memory, no register and not I.
C31_BcdDigits ==
    [][Completes("BCD") =>
         LET v == registers[FieldX(last'.raw)]
             h == peek(memory', i_register)
             t == peek(memory', i_register + 1)
             o == peek(memory', i_register + 2)
         IN  /\ {h, t, o} \subseteq 0..9
             /\ 100 * h + 10 * t + o = v
             /\ \A m \in 0..(MEMORY_SIZE - 1) \ i_register..(i_register + 2) :
                   peek(memory', m) = peek(memory, m)
             /\ registers' = registers
             /\ i_register' = i_register]_vars

\* the third BCD of BcdRom has written 1, 9, 7 at 0x300 for V3 = 197
C31_Witness ==
    /\ rom = BcdRom
    /\ last.op = "execute" /\ last.name = "BCD" /\ last.addr = INITIAL_ADDR + 12
    /\ registers[3] = 197
    /\ i_register = 768
    /\ peek(memory, 768) = 1 /\ peek(memory, 769) = 9 /\ peek(memory, 770) = 7

\* C32: an instruction executes only with the latch clear and fewer than 10
\* instructions executed in this tick, and it is the one PC points at.  A
\* tick that ends with the latch clear has executed exactly 10 instructions;
\* one that ends with the latch set has executed none (the latch was set
\* when it began) or has executed KEY last.  With the program JMP 0x200 at
\* 0x200 PC is 0x200 at the end of every tick.
C32_InstructionsPerTick ==
    [][/\ (iter' = iter + 1) =>
            /\ store_keypress = <<>>
            /\ iter < INSTRUCTIONS_PER_FRAME
            /\ last'.name # "" => last'.addr = pc
       /\ (TickEnds /\ store_keypress = <<>>) => iter = INSTRUCTIONS_PER_FRAME
       /\ (TickEnds /\ store_keypress # <<>>) =>
            \/ iter = 0
            \/ last.op = "execute" /\ last.name = "KEY"
       /\ (TickEnds /\ rom = JmpSelfRom) => pc' = INITIAL_ADDR]_vars

\* the second tick of KeyRom began with the latch clear and has ended after
\* MOV, JMP and KEY, three instructions
C32_Witness ==
    /\ rom = KeyRom
    /\ last.op = "resolve"
    /\ ticks = 2
    /\ iter = 3
    /\ registers[4] = 1
    /\ pc = INITIAL_ADDR + 2

\* C34: JMPR NNN sets PC to (NNN + V0) mod 4096, whatever the second nibble
\* of the opcode is, so PC is below 4096 after it.
C34_JmprTarget ==
    [][Executes("JMPR") =>
         /\ pc' = (FieldNNN(last'.raw) + registers[0]) % 4096
         /\ pc' < 4096]_vars

\* JMPR 0xFF1 with V0 = 0xFF has wrapped to 0x0F0
C34_Witness ==
    /\ rom = JmprRom
    /\ last.op = "execute" /\ last.name = "JMPR" /\ last.addr = INITIAL_ADDR + 10
    /\ registers[0] = 255
    /\ pc = 240

\* C35: ADD VX, NN leaves (VX + NN) mod 256 in VX and changes no other
\* register, in particular not VF when X is not F, nor I, nor memory; OR,
\* AND and XOR change no register but VX either.
C35_AddImmediateNoFlag ==
    [][LET x == FieldX(last'.raw)
       IN  /\ Executes("ADD") =>
                /\ registers' = [registers EXCEPT
                                    ![x] = (registers[x] + FieldNN(last'.raw)) % 256]
                /\ i_register' = i_register
                /\ memory' = memory
           /\ (Executes("OR") \/ Executes("AND") \/ Executes("XOR")) =>
                \A r \in 0..15 \ {x} : registers'[r] = registers[r]]_vars

\* ADD V2, 0xC8 has wrapped 127 + 200 to 71 and VF is still 1
C35_Witness ==
    /\ rom = AddRom
    /\ last.op = "execute" /\ last.name = "ADD" /\ last.addr = INITIAL_ADDR + 4
    /\ registers[2] = 71
    /\ registers[15] = 1

\* the cells of row r the DRAW raw is to toggle: those inside the sprite
\* rectangle at (ox, oy), cut at the right and bottom edges, whose sprite bit
\* is set, each bit being scale x scale cells
DrawToggles(raw, r) ==
    LET wide == high_resolution /\ FieldN(raw) = 0
        w == IF wide THEN 16 ELSE 8
        h == IF wide THEN 16 ELSE FieldN(raw)
        scale == IF high_resolution THEN 1 ELSE 2
        ox == (scale * registers[FieldX(raw)]) % SCREEN_WIDTH
        oy == (scale * registers[FieldY(raw)]) % SCREEN_HEIGHT
    IN  IF oy <= r /\ r < Min(oy + scale * h, SCREEN_HEIGHT)
        THEN {c \in ox..(Min(ox + scale * w, SCREEN_WIDTH) - 1) :
                 SpriteBit(wide, (r - oy) \div scale, (c - ox) \div scale)}
        ELSE {}

\* C33: DRAW does not wrap and touches no cell outside the sprite rectangle:
\* with the origin (VX mod 128, VY mod 64) in high resolution and
\* (2 VX mod 128, 2 VY mod 64) in low resolution, exactly the cells of the
\* rectangle, cut at column 128 and row 64, that lie under a set sprite bit
\* are toggled (2 x 2 cells a bit in low resolution); every other cell is
\* unchanged.
C33_DrawClipsToRectangle ==
    [][Completes("DRAW") =>
         \A r \in 0..(SCREEN_HEIGHT - 1) :
            frame_buffer'[r] =
               (frame_buffer[r] \ DrawToggles(last'.raw, r))
                  \cup (DrawToggles(last'.raw, r) \ frame_buffer[r])]_vars

\* low resolution, the digit 0 at (127, 63): the origin is (126, 62), one 2 x 2
\* block is on the screen, and neither row 0 nor column 0 took what was cut
C33_Witness ==
    /\ rom = LowDrawRom
    /\ ~high_resolution
    /\ last.op = "execute" /\ last.name = "DRAW" /\ last.addr = INITIAL_ADDR + 18
    /\ registers[1] = 127 /\ registers[2] = 63
    /\ frame_buffer[62] = {126, 127} /\ frame_buffer[63] = {126, 127}
    /\ frame_buffer[0] = {4, 5}

====
